---- MODULE Spec2Model ----
(***************************************************************************)
(* A model of pipeline.py: the Stage decorator and its class-wide counter, *)
(* the Attribute placeholder, the Pipeline class decorator (wrap) with the *)
(* constructor it generates, and PipelineImpl / StageImpl, which bind the  *)
(* tagged methods of an instance and run them.                             *)
(***************************************************************************)
EXTENDS Integers, Sequences, FiniteSets, TLC

(***************************************************************************)
(* Bounds of the model.                                                    *)
(***************************************************************************)
\* Stage(...) objects created in a sequential run.
MaxStages == 3
\* Pipeline instances constructed in a run.
MaxInstances == 1
\* Calls of start() in a run.
MaxRuns == 2
\* Members of a class body enumerated for definition processing.
MaxFields == 2
\* Threads that construct a Stage concurrently.
NumThreads == 3
\* Pipeline instances alive at the same time.
NumConcurrent == 2

(***************************************************************************)
(* Values.  Python's None, the literals that class bodies and constructor  *)
(* calls use, and the exceptions stage actions raise.                      *)
(***************************************************************************)
None == "None"

Defs == {"P", "Q"}

\* Method names, listed in the alphabetical order inspect.getmembers returns.
MethodNames == <<"build", "submit", "sync">>

StageNames == {"Sync", "Build", "Submit"}

\* The name MyPipeline gives the stage it declares on method m.
StageNameOf(m) ==
    IF m = "sync" THEN "Sync" ELSE IF m = "build" THEN "Build" ELSE "Submit"

FieldNames == {"changelist", "value", "_status"}

\* Names an Attribute placeholder may carry.
AttributeNames == {"changelist", "value"}

Defaults == {None, "Default.txt"}

Supplied == {"50", "Hello.txt"}

Failures == {"ValueError", "OSError"}

StartsWithUnderscore(name) == name = "_status"

RECURSIVE SeqToSet(_)
SeqToSet(s) == IF s = <<>> THEN {} ELSE {Head(s)} \cup SeqToSet(Tail(s))

\* Position of a method name in alphabetical order.
NameRank(name) == CHOOSE k \in 1..Len(MethodNames) : MethodNames[k] = name

(***************************************************************************)
(* State.                                                                  *)
(***************************************************************************)
VARIABLES
    next_identifier,  \* Stage.next_identifier
    stage_objects,    \* the Stage objects, in the order their __init__ completed
    cls,              \* per definition: __annotations__, __dict__, the body as written
    ptype,            \* per definition: the result of Pipeline(cls)
    instances,        \* the pipeline instances constructed so far
    exc,              \* the exception the last constructor call raised, or None
    runs,             \* number of start() calls made
    threads,          \* per thread: its position inside Stage.__init__
    ptype2,           \* per definition: the result of a second Pipeline(cls)
    call              \* a call of a tagged action: its arguments and what came of it

vars == <<next_identifier, stage_objects, cls, ptype, instances, exc, runs, threads,
         ptype2, call>>

(***************************************************************************)
(* class Stage                                                             *)
(***************************************************************************)
\* Stage.__init__ without line 12: the counter is left where it was.
StageInitNoIncrement(name, counter) ==
    [stage |-> [name |-> name, order |-> counter], next |-> counter]

\* Stage.__init__ run without interruption: the new object and the counter.
StageInit(name, counter) ==
    [stage |-> [name |-> name, order |-> counter], next |-> counter + 1]

\* The values a class member may hold.
NoAttribute ==
    [name |-> "", type |-> "", required |-> FALSE, description |-> "", default |-> None]

Absent ==
    [kind |-> "absent", lit |-> None, attr |-> NoAttribute,
     stage_name |-> "", stage_order |-> 0]

Literal(v) == [Absent EXCEPT !.kind = "literal", !.lit = v]

Placeholder(a) == [Absent EXCEPT !.kind = "attribute", !.attr = a]

\* Stage.__call__: the wrapper carries the Stage object's name and order.
StageCall(stage) ==
    [Absent EXCEPT !.kind = "stage", !.stage_name = stage.name,
                   !.stage_order = stage.order]

\* What a call comes to: a value returned or an exception raised.
Returned(v) == [kind |-> "return", value |-> v]

Raised(e) == [kind |-> "raise", value |-> e]

Outcomes == {Returned(v) : v \in {None, "done"}} \cup {Raised(e) : e \in Failures}

\* The positional and keyword arguments of a call.
NoArguments == [args |-> <<>>, kwargs |-> <<>>]

Arguments ==
    {NoArguments, [args |-> <<"self">>, kwargs |-> <<>>],
     [args |-> <<"self">>, kwargs |-> [value |-> "50"]]}

\* The actions a stage may be declared on: what each does with each call.
Functions == [Arguments -> Outcomes]

\* A wrapper whose line 16 lacks "return": the result of the action is dropped.
WrapperWithoutReturn(function, arguments) ==
    [received |-> <<arguments>>,
     outcome |-> IF function[arguments].kind = "raise" THEN function[arguments]
                 ELSE Returned(None)]

\* Lines 15-16: the wrapper passes its arguments on to the action, once, and
\* what the action returns or raises is what the caller of the wrapper gets.
Wrapper(function, arguments) ==
    [received |-> <<arguments>>, outcome |-> function[arguments]]

\* No action has been tagged, no tagged action called.
NoCall ==
    [function |-> <<>>, tag |-> Absent, called |-> FALSE, args |-> NoArguments,
     received |-> <<>>, outcome |-> Returned(None)]

(***************************************************************************)
(* Ordered dictionaries (__annotations__, __dict__, attributes): sequences *)
(* of [name, value] entries in insertion order.                            *)
(***************************************************************************)
DictHas(d, k) == \E i \in 1..Len(d) : d[i].name = k

DictKeys(d) == [i \in 1..Len(d) |-> d[i].name]

\* A dictionary that puts a new key first.
DictSetFront(d, k, v) ==
    IF DictHas(d, k)
    THEN [i \in 1..Len(d) |-> IF d[i].name = k THEN [name |-> k, value |-> v] ELSE d[i]]
    ELSE <<[name |-> k, value |-> v]>> \o d

\* d[k] = v: an existing key keeps its position, a new key goes last.
DictSet(d, k, v) ==
    IF DictHas(d, k)
    THEN [i \in 1..Len(d) |-> IF d[i].name = k THEN [name |-> k, value |-> v] ELSE d[i]]
    ELSE Append(d, [name |-> k, value |-> v])

\* getattr(cls, name, None) on the class's own members.
GetAttr(d, k) ==
    IF DictHas(d, k) THEN d[CHOOSE i \in 1..Len(d) : d[i].name = k].value ELSE Absent

\* The Python value of a member that is not a placeholder.
PyValue(m) == IF m.kind = "literal" THEN m.lit
              ELSE IF m.kind \in {"stage", "function"} THEN "<function>"
              ELSE None

(***************************************************************************)
(* class Attribute                                                         *)
(***************************************************************************)
\* Attribute.__init__: required is set to False before it is tested.
AttributeInit(name, a_type, description, default) ==
    LET required == FALSE
    IN  [raised |-> required /\ default # None,
         attr |-> [name |-> name, type |-> a_type, required |-> required,
                   description |-> description, default |-> default]]

(***************************************************************************)
(* Pipeline(cls): wrap                                                     *)
(***************************************************************************)
\* Lines 86-98: one Attribute per annotated, non-underscore name.
AttributeOf(annotation, dict) ==
    LET default == GetAttr(dict, annotation.name)
    IN  IF default.kind = "attribute"
        THEN [raised |-> FALSE, attr |-> default.attr]
        ELSE AttributeInit(annotation.name, annotation.type, "", PyValue(default))

ClsAttributes(annotations, dict) ==
    LET kept == SelectSeq(annotations, LAMBDA a : ~StartsWithUnderscore(a.name))
    IN  [i \in 1..Len(kept) |-> AttributeOf(kept[i], dict)]

\* Lines 100-105 with line 105 storing None in place of the default.
RECURSIVE AttributesLoopDropsDefault(_, _, _)
AttributesLoopDropsDefault(cls_attributes, attributes, dict) ==
    IF cls_attributes = <<>>
    THEN [attributes |-> attributes, dict |-> dict]
    ELSE LET attribute == Head(cls_attributes)
         IN  AttributesLoopDropsDefault(
                 Tail(cls_attributes),
                 DictSet(attributes, attribute.name, attribute),
                 IF GetAttr(dict, attribute.name).kind = "attribute"
                 THEN DictSet(dict, attribute.name, Literal(None))
                 ELSE dict)

\* Lines 100-105: fill the attributes dictionary, keyed by attribute.name, and
\* replace the placeholders found under those names by their defaults.
RECURSIVE AttributesLoop(_, _, _)
AttributesLoop(cls_attributes, attributes, dict) ==
    IF cls_attributes = <<>>
    THEN [attributes |-> attributes, dict |-> dict]
    ELSE LET attribute == Head(cls_attributes)
         IN  AttributesLoop(
                 Tail(cls_attributes),
                 DictSet(attributes, attribute.name, attribute),
                 IF GetAttr(dict, attribute.name).kind = "attribute"
                 THEN DictSet(dict, attribute.name, Literal(attribute.default))
                 ELSE dict)

\* wrap without the check of lines 108-110.
MisdefinedUnchecked(dict, attributes) == FALSE

\* Lines 108-110: a member still holding an Attribute under a name that is no key.
Misdefined(dict, attributes) ==
    \E i \in 1..Len(dict) :
        dict[i].value.kind = "attribute" /\ ~DictHas(attributes, dict[i].name)

\* Lines 120-127: the parameters of the generated __init__, self left out.
InitArgs(attributes) ==
    [i \in 1..Len(attributes) |->
        IF attributes[i].value.required
        THEN [name |-> attributes[i].name, has_default |-> FALSE, default |-> None]
        ELSE [name |-> attributes[i].name, has_default |-> TRUE,
              default |-> attributes[i].value.default]]

\* Lines 120-121: the assignments self.<name> = <name> of the generated __init__.
InitLines(attributes) == DictKeys(attributes)

\* Line 133: exec rejects a parameter without default after one with a default.
ExecRaises(init_args) ==
    \E i, j \in 1..Len(init_args) :
        i < j /\ init_args[i].has_default /\ ~init_args[j].has_default

NoType == [status |-> "none", init_args |-> <<>>, init_lines |-> <<>>]

\* wrap(cls): the class as wrap leaves it, and PipelineClass or the error raised.
Wrap(c) ==
    LET cls_attributes == ClsAttributes(c.annotations, c.dict)
        raised == \E i \in 1..Len(cls_attributes) : cls_attributes[i].raised
        loop == AttributesLoop([i \in 1..Len(cls_attributes) |-> cls_attributes[i].attr],
                               <<>>, c.dict)
        init_args == InitArgs(loop.attributes)
    IN  IF raised
        THEN [cls |-> c, type |-> [NoType EXCEPT !.status = "SyntaxError"]]
        ELSE IF Misdefined(loop.dict, loop.attributes)
        THEN [cls |-> [c EXCEPT !.dict = loop.dict],
              type |-> [NoType EXCEPT !.status = "SyntaxError"]]
        ELSE IF ExecRaises(init_args)
        THEN [cls |-> [c EXCEPT !.dict = loop.dict,
                                !.pipeline_attributes = loop.attributes],
              type |-> [NoType EXCEPT !.status = "SyntaxError"]]
        ELSE [cls |-> [c EXCEPT !.dict = loop.dict,
                                !.pipeline_attributes = loop.attributes],
              type |-> [status |-> "ok", init_args |-> init_args,
                        init_lines |-> InitLines(loop.attributes)]]

(***************************************************************************)
(* class StageImpl, class PipelineImpl                                     *)
(***************************************************************************)
\* A StageImpl that binds every stage to the first instance constructed.
StageImplInitShared(pipeline, method) ==
    [name |-> method.value.stage_name, order |-> method.value.stage_order,
     pipeline |-> 1, function |-> method.name]

\* StageImpl.__init__
StageImplInit(pipeline, method) ==
    [name |-> method.value.stage_name, order |-> method.value.stage_order,
     pipeline |-> pipeline, function |-> method.name]

\* A StageImpl without __eq__: an object equals itself only.
StageEqIdentity(self, other) == self = other

\* StageImpl.__eq__
StageEq(self, other) == self.order = other.order

\* StageImpl.__lt__
StageLt(self, other) == self.order < other.order

\* getmembers without method_filter: every method, tagged or not.
GetMembersUnfiltered(dict) ==
    LET named(k) == SelectSeq(dict, LAMBDA m : m.name = MethodNames[k]
                                                /\ m.value.kind \in {"stage", "function"})
        RECURSIVE from(_)
        from(k) == IF k > Len(MethodNames) THEN <<>> ELSE named(k) \o from(k + 1)
    IN  from(1)

\* inspect.getmembers with method_filter: the tagged methods, sorted by name.
GetMembers(dict) ==
    LET named(k) == SelectSeq(dict, LAMBDA m : m.name = MethodNames[k]
                                                /\ m.value.kind = "stage")
        RECURSIVE from(_)
        from(k) == IF k > Len(MethodNames) THEN <<>> ELSE named(k) \o from(k + 1)
    IN  from(1)

\* __init__ without line 163: the stages stay as getmembers listed them.
SortSkipped(s) == s

\* list.sort(): stable, and decided by __lt__ alone.
RECURSIVE Insert(_, _)
Insert(sorted, x) ==
    IF sorted = <<>> THEN <<x>>
    ELSE IF StageLt(x, sorted[Len(sorted)])
         THEN Append(Insert(SubSeq(sorted, 1, Len(sorted) - 1), x), sorted[Len(sorted)])
         ELSE Append(sorted, x)

RECURSIVE Sort(_)
\* Insertion sort over the whole list.
Sort(s) == IF s = <<>> THEN <<>>
           ELSE Insert(Sort(SubSeq(s, 1, Len(s) - 1)), s[Len(s)])

\* PipelineImpl.__init__: bind every tagged method, then sort.
PipelineImplInit(pipeline, dict) ==
    LET members == GetMembers(dict)
    IN  Sort([i \in 1..Len(members) |-> StageImplInit(pipeline, members[i])])

\* The call of the generated __init__: each parameter takes the keyword given
\* for it, else its default; a parameter with neither raises TypeError.
MissingArgs(init_args, kwargs) ==
    {init_args[i].name : i \in {j \in 1..Len(init_args) :
        ~init_args[j].has_default /\ init_args[j].name \notin DOMAIN kwargs}}

\* A parameter that ignores the keyword given for it.
BindArgDefault(arg, kwargs) == arg.default

BindArg(arg, kwargs) ==
    IF arg.name \in DOMAIN kwargs THEN kwargs[arg.name] ELSE arg.default

\* The generated __init__: super().__init__(), then self.<name> = <name>.
GeneratedInit(pipeline, c, type, kwargs) ==
    LET args == [n \in SeqToSet([i \in 1..Len(type.init_args) |-> type.init_args[i].name])
                   |-> BindArg(type.init_args[CHOOSE i \in 1..Len(type.init_args) :
                                   type.init_args[i].name = n], kwargs)]
    IN  [stages |-> PipelineImplInit(pipeline, c.dict),
         fields |-> [n \in SeqToSet(type.init_lines) |-> args[n]]]

(***************************************************************************)
(* Class bodies.                                                           *)
(***************************************************************************)
EmptyClass ==
    [annotations |-> <<>>, dict |-> <<>>, body |-> <<>>, pipeline_attributes |-> <<>>]

\* A class statement whose body declares the given fields, in that order.
ClassOf(fields) ==
    LET annotated == SelectSeq(fields, LAMBDA f : f.annotated)
        valued == SelectSeq(fields, LAMBDA f : f.value.kind # "absent")
        dict == [i \in 1..Len(valued) |->
                    [name |-> valued[i].name, value |-> valued[i].value]]
    IN  [annotations |-> [i \in 1..Len(annotated) |->
                             [name |-> annotated[i].name, type |-> "int"]],
         dict |-> dict, body |-> dict, pipeline_attributes |-> <<>>]

\* class MyPipeline, its stages left to be declared:
\*     changelist: int
\*     value: str = "Default.txt"
MyPipeline ==
    [annotations |-> << [name |-> "changelist", type |-> "int"],
                        [name |-> "value", type |-> "str"] >>,
     dict |-> << [name |-> "value", value |-> Literal("Default.txt")] >>,
     body |-> << [name |-> "value", value |-> Literal("Default.txt")] >>,
     pipeline_attributes |-> <<>>]

\* The placeholders a body may hold: Attribute(name, int, default=...).
Placeholders ==
    {Placeholder(AttributeInit(n, "int", "", d).attr) : n \in AttributeNames, d \in Defaults}

\* One field of a body: annotated or not, with no value, a literal or a placeholder.
Fields ==
    {[name |-> n, annotated |-> a, value |-> v] :
        n \in FieldNames, a \in BOOLEAN,
        v \in {Absent, Literal("Default.txt")} \cup Placeholders}

Bodies ==
    {fs \in UNION {[1..k -> Fields] : k \in 0..MaxFields} :
        /\ \A i, j \in 1..Len(fs) : i # j => fs[i].name # fs[j].name
        /\ \A i \in 1..Len(fs) : fs[i].annotated \/ fs[i].value.kind # "absent"}

\* The keyword arguments a caller may pass to a generated __init__.
KwargsFor(init_args) ==
    UNION {[S -> Supplied] :
              S \in SUBSET SeqToSet([i \in 1..Len(init_args) |-> init_args[i].name])}

(***************************************************************************)
(* Initial states.                                                         *)
(***************************************************************************)
IdleThreads ==
    [t \in 1..NumThreads |-> [pc |-> "idle", name |-> "", order |-> 0, loaded |-> 0]]

InitCommon ==
    /\ next_identifier = 1
    /\ stage_objects = <<>>
    /\ ptype = [c \in Defs |-> NoType]
    /\ instances = <<>>
    /\ exc = None
    /\ runs = 0
    /\ threads = IdleThreads
    /\ ptype2 = [c \in Defs |-> NoType]
    /\ call = NoCall

\* The module as pipeline.py leaves it before any stage is declared.
Init ==
    /\ InitCommon
    /\ cls = [c \in Defs |-> IF c = "P" THEN MyPipeline ELSE EmptyClass]

\* One class body of attribute fields, about to be processed.
InitAttr ==
    /\ InitCommon
    /\ \E fs \in Bodies : cls = [c \in Defs |-> IF c = "P" THEN ClassOf(fs) ELSE EmptyClass]

(***************************************************************************)
(* Declarations.                                                           *)
(***************************************************************************)
\* @Stage(n) def m(self): ... in the body of class c.
DeclareStage(c, m, n) ==
    /\ ptype[c].status = "none"
    /\ Len(stage_objects) < MaxStages
    /\ ~DictHas(cls[c].dict, m)
    /\ LET made == StageInit(n, next_identifier)
           member == [name |-> m, value |-> StageCall(made.stage)]
       IN  /\ next_identifier' = made.next
           /\ stage_objects' = Append(stage_objects, made.stage)
           /\ cls' = [cls EXCEPT ![c].dict = Append(@, member),
                                 ![c].body = Append(@, member)]
    /\ UNCHANGED <<ptype, instances, exc, runs, threads, ptype2, call>>

\* placeholder.required = True, written by the author of the body: the slot is
\* public and no other statement makes an attribute required.
SetRequired(c, k) ==
    /\ ptype[c].status = "none"
    /\ k \in 1..Len(cls[c].dict)
    /\ cls[c].dict[k].value.kind = "attribute"
    /\ ~cls[c].dict[k].value.attr.required
    /\ cls' = [cls EXCEPT ![c].dict[k].value.attr.required = TRUE,
                          ![c].body[k].value.attr.required = TRUE]
    /\ UNCHANGED <<next_identifier, stage_objects, ptype, instances, exc, runs, threads, ptype2, call>>

\* @Pipeline applied to class c.
ProcessDefinition(c) ==
    /\ ptype[c].status = "none"
    /\ LET w == Wrap(cls[c])
       IN  /\ cls' = [cls EXCEPT ![c] = w.cls]
           /\ ptype' = [ptype EXCEPT ![c] = w.type]
    /\ UNCHANGED <<next_identifier, stage_objects, instances, exc, runs, threads, ptype2, call>>

(***************************************************************************)
(* Construction and start().                                               *)
(***************************************************************************)
\* The results of processing one definition: the first and the second.
Results == {1, 2}

ResultOf(c, r) == IF r = 1 THEN ptype[c] ELSE ptype2[c]

\* PipelineClass(**kwargs), PipelineClass being result r of Pipeline(cls), in
\* a program that constructs at most max instances.
ConstructBounded(c, r, kwargs, max) ==
    /\ ResultOf(c, r).status = "ok"
    /\ Len(instances) < max
    /\ IF MissingArgs(ResultOf(c, r).init_args, kwargs) # {}
       THEN /\ exc' = "TypeError"
            /\ UNCHANGED instances
       ELSE LET made == GeneratedInit(Len(instances) + 1, cls[c], ResultOf(c, r), kwargs)
            IN  /\ exc' = None
                /\ instances' = Append(instances,
                       [cls |-> c, made_by |-> r, kwargs |-> kwargs,
                        fields |-> made.fields,
                        stages |-> made.stages, pc |-> "idle", idx |-> 0,
                        trace |-> <<>>, raised |-> None, result |-> None])
    /\ UNCHANGED <<next_identifier, stage_objects, cls, ptype, runs, threads, ptype2, call>>

\* PipelineClass(**kwargs)
Construct(c, kwargs) == ConstructBounded(c, 1, kwargs, MaxInstances)

\* The receiver of the bound method is the instance the stage was bound to.
Event(kind, stage) ==
    [kind |-> kind, name |-> stage.name, function |-> stage.function,
     self |-> stage.pipeline]

\* A start() that refuses an instance that was started before.
StartOnce(i) ==
    /\ i \in 1..Len(instances)
    /\ instances[i].pc = "idle"
    /\ runs < MaxRuns
    /\ runs' = runs + 1
    /\ instances' = [instances EXCEPT ![i].pc = "loop", ![i].idx = 1, ![i].trace = <<>>,
                                      ![i].raised = None, ![i].result = None]
    /\ UNCHANGED <<next_identifier, stage_objects, cls, ptype, exc, threads, ptype2, call>>

\* start() is called: the for loop is entered.
Start(i) ==
    /\ i \in 1..Len(instances)
    /\ instances[i].pc \in {"idle", "returned", "raised"}
    /\ runs < MaxRuns
    /\ runs' = runs + 1
    /\ instances' = [instances EXCEPT ![i].pc = "loop", ![i].idx = 1, ![i].trace = <<>>,
                                      ![i].raised = None, ![i].result = None]
    /\ UNCHANGED <<next_identifier, stage_objects, cls, ptype, exc, threads, ptype2, call>>

\* StageImpl.run, lines 45-46: print "Running...", then call the action.
StageRunBegin(i) ==
    /\ i \in 1..Len(instances)
    /\ instances[i].pc = "loop"
    /\ instances[i].idx <= Len(instances[i].stages)
    /\ LET stage == instances[i].stages[instances[i].idx]
       IN  instances' = [instances EXCEPT
               ![i].pc = "action",
               ![i].trace = @ \o <<Event("Running", stage), Event("call", stage)>>]
    /\ UNCHANGED <<next_identifier, stage_objects, cls, ptype, exc, runs, threads, ptype2, call>>

\* StageImpl.run without line 47: nothing is printed after the action.
StageRunEndSilent(i) ==
    /\ i \in 1..Len(instances)
    /\ instances[i].pc = "action"
    /\ instances' = [instances EXCEPT ![i].pc = "loop", ![i].idx = @ + 1]
    /\ UNCHANGED <<next_identifier, stage_objects, cls, ptype, exc, runs, threads, ptype2, call>>

\* The action returns; StageImpl.run, line 47, prints "Executed." and the loop goes on.
StageRunEnd(i) ==
    /\ i \in 1..Len(instances)
    /\ instances[i].pc = "action"
    /\ LET stage == instances[i].stages[instances[i].idx]
       IN  instances' = [instances EXCEPT
               ![i].pc = "loop",
               ![i].idx = @ + 1,
               ![i].trace = Append(@, Event("Executed", stage))]
    /\ UNCHANGED <<next_identifier, stage_objects, cls, ptype, exc, runs, threads, ptype2, call>>

\* What a caller of start() receives when an action raises e: neither run nor
\* start holds a try statement.
Propagate(e) == e

\* start() with the call of run wrapped in "try ... except: pass".
StageRaiseSwallowed(i, e) ==
    /\ i \in 1..Len(instances)
    /\ instances[i].pc = "action"
    /\ instances' = [instances EXCEPT ![i].pc = "loop", ![i].idx = @ + 1,
                                      ![i].raised = e]
    /\ UNCHANGED <<next_identifier, stage_objects, cls, ptype, exc, runs, threads, ptype2, call>>

\* StageImpl.run with line 47 in a "finally" clause: "Executed." is printed
\* although the action raised.
StageRaiseFinally(i, e) ==
    /\ i \in 1..Len(instances)
    /\ instances[i].pc = "action"
    /\ LET stage == instances[i].stages[instances[i].idx]
       IN  instances' = [instances EXCEPT
               ![i].pc = "raised", ![i].raised = e, ![i].result = Propagate(e),
               ![i].trace = Append(@, Event("Executed", stage))]
    /\ UNCHANGED <<next_identifier, stage_objects, cls, ptype, exc, runs, threads, ptype2, call>>

\* The action raises e: run and start are left at once.
StageRaise(i, e) ==
    /\ i \in 1..Len(instances)
    /\ instances[i].pc = "action"
    /\ instances' = [instances EXCEPT ![i].pc = "raised", ![i].raised = e,
                                      ![i].result = Propagate(e)]
    /\ UNCHANGED <<next_identifier, stage_objects, cls, ptype, exc, runs, threads, ptype2, call>>

\* The for loop is exhausted: start() returns None.
StartReturn(i) ==
    /\ i \in 1..Len(instances)
    /\ instances[i].pc = "loop"
    /\ instances[i].idx > Len(instances[i].stages)
    /\ instances' = [instances EXCEPT ![i].pc = "returned"]
    /\ UNCHANGED <<next_identifier, stage_objects, cls, ptype, exc, runs, threads, ptype2, call>>

(***************************************************************************)
(* A definition processed twice.                                           *)
(***************************************************************************)
\* Class c with "@Stage(...) def sync" and then "@Stage(...) def build" declared
\* after its fields, the counter starting at 1.
WithTwoStages(c) ==
    LET first == StageInit(StageNameOf("sync"), 1)
        second == StageInit(StageNameOf("build"), first.next)
        members == << [name |-> "sync", value |-> StageCall(first.stage)],
                      [name |-> "build", value |-> StageCall(second.stage)] >>
    IN  [class |-> [c EXCEPT !.dict = @ \o members, !.body = @ \o members],
         objects |-> <<first.stage, second.stage>>,
         next |-> second.next]

\* One class body of attribute fields and two stages, about to be processed.
InitTwice ==
    /\ \E fs \in Bodies :
           /\ cls = [c \in Defs |-> IF c = "P" THEN WithTwoStages(ClassOf(fs)).class
                                    ELSE EmptyClass]
           /\ stage_objects = WithTwoStages(ClassOf(fs)).objects
           /\ next_identifier = WithTwoStages(ClassOf(fs)).next
    /\ ptype = [c \in Defs |-> NoType]
    /\ ptype2 = [c \in Defs |-> NoType]
    /\ instances = <<>>
    /\ exc = None
    /\ runs = 0
    /\ threads = IdleThreads
    /\ call = NoCall

\* Pipeline(cls) applied again to the class the first application left.
ProcessAgain(c) ==
    /\ ptype[c].status = "ok"
    /\ ptype2[c].status = "none"
    /\ LET w == Wrap(cls[c])
       IN  /\ cls' = [cls EXCEPT ![c] = w.cls]
           /\ ptype2' = [ptype2 EXCEPT ![c] = w.type]
    /\ UNCHANGED <<next_identifier, stage_objects, ptype, instances, exc, runs, threads, call>>

\* One instance from result r, constructed with no argument.
ConstructOnce(c, r) ==
    /\ \A i \in 1..Len(instances) : instances[i].made_by # r
    /\ ConstructBounded(c, r, <<>>, Cardinality(Results))

(***************************************************************************)
(* Definitions with untagged methods and with one Stage object tagging     *)
(* several methods.                                                        *)
(***************************************************************************)
\* A method without stage metadata.
Function == [Absent EXCEPT !.kind = "function"]

\* def m(self): ... in the body of class c.
DeclareMethod(c, m) ==
    /\ ptype[c].status = "none"
    /\ ~DictHas(cls[c].dict, m)
    /\ LET member == [name |-> m, value |-> Function]
       IN  cls' = [cls EXCEPT ![c].dict = Append(@, member),
                             ![c].body = Append(@, member)]
    /\ UNCHANGED <<next_identifier, stage_objects, ptype, instances, exc, runs, threads, ptype2, call>>

\* @s def m(self): ... in the body of class c, s being the k-th Stage object
\* made so far: __call__ gives the new wrapper the order the object holds.
TagAgain(c, m, k) ==
    /\ ptype[c].status = "none"
    /\ ~DictHas(cls[c].dict, m)
    /\ k \in 1..Len(stage_objects)
    /\ LET member == [name |-> m, value |-> StageCall(stage_objects[k])]
       IN  cls' = [cls EXCEPT ![c].dict = Append(@, member),
                             ![c].body = Append(@, member)]
    /\ UNCHANGED <<next_identifier, stage_objects, ptype, instances, exc, runs, threads, ptype2, call>>

\* A module that has declared nothing yet.
InitTies ==
    /\ InitCommon
    /\ cls = [c \in Defs |-> EmptyClass]

(***************************************************************************)
(* Instances constructed and run concurrently by the host application.     *)
(***************************************************************************)
\* Two definitions declared and processed: P holds the attributes of MyPipeline
\* and the stages Sync and Build, Q holds no attribute and the stage Submit.
Loaded ==
    LET p == WithTwoStages(MyPipeline)
        third == StageInit(StageNameOf("submit"), p.next)
        member == [name |-> "submit", value |-> StageCall(third.stage)]
        q == [EmptyClass EXCEPT !.dict = <<member>>, !.body = <<member>>]
    IN  [wrapped |-> [c \in Defs |-> IF c = "P" THEN Wrap(p.class) ELSE Wrap(q)],
         objects |-> Append(p.objects, third.stage),
         next |-> third.next]

InitConcurrent ==
    /\ next_identifier = Loaded.next
    /\ stage_objects = Loaded.objects
    /\ cls = [c \in Defs |-> Loaded.wrapped[c].cls]
    /\ ptype = [c \in Defs |-> Loaded.wrapped[c].type]
    /\ ptype2 = [c \in Defs |-> NoType]
    /\ instances = <<>>
    /\ exc = None
    /\ runs = 0
    /\ threads = IdleThreads
    /\ call = NoCall

(***************************************************************************)
(* A tagged action called on its own.                                      *)
(***************************************************************************)
\* One action, not yet tagged.
InitCall ==
    /\ next_identifier = 1
    /\ stage_objects = <<>>
    /\ cls = [c \in Defs |-> EmptyClass]
    /\ ptype = [c \in Defs |-> NoType]
    /\ ptype2 = [c \in Defs |-> NoType]
    /\ instances = <<>>
    /\ exc = None
    /\ runs = 0
    /\ threads = IdleThreads
    /\ \E f \in Functions : call = [NoCall EXCEPT !.function = f]

\* tagged = Stage(n)(function)
TagAction(n) ==
    /\ call.tag.kind = "absent"
    /\ LET made == StageInit(n, next_identifier)
       IN  /\ next_identifier' = made.next
           /\ stage_objects' = Append(stage_objects, made.stage)
           /\ call' = [call EXCEPT !.tag = StageCall(made.stage)]
    /\ UNCHANGED <<cls, ptype, instances, exc, runs, threads, ptype2>>

\* tagged(*args, **kwargs)
CallTagged(arguments) ==
    /\ call.tag.kind = "stage"
    /\ ~call.called
    /\ LET w == Wrapper(call.function, arguments)
       IN  call' = [call EXCEPT !.called = TRUE, !.args = arguments,
                                !.received = w.received, !.outcome = w.outcome]
    /\ UNCHANGED <<next_identifier, stage_objects, cls, ptype, instances, exc, runs, threads, ptype2>>

(***************************************************************************)
(* Stage.__init__ on concurrent threads: the read of line 11, the load and *)
(* the store of line 12 are separate steps of the interpreter.             *)
(***************************************************************************)
\* Lines 10-11: self.name = name; self.order = Stage.next_identifier
ThreadReadOrder(t, n) ==
    /\ threads[t].pc = "idle"
    /\ threads' = [threads EXCEPT ![t].pc = "load", ![t].name = n,
                                  ![t].order = next_identifier]
    /\ UNCHANGED <<next_identifier, stage_objects, cls, ptype, instances, exc, runs, ptype2, call>>

\* Line 12, first half: Stage.next_identifier is loaded.
ThreadLoad(t) ==
    /\ threads[t].pc = "load"
    /\ threads' = [threads EXCEPT ![t].pc = "store", ![t].loaded = next_identifier]
    /\ UNCHANGED <<next_identifier, stage_objects, cls, ptype, instances, exc, runs, ptype2, call>>

\* Line 12, second half: the loaded value plus one is stored.
ThreadStore(t) ==
    /\ threads[t].pc = "store"
    /\ next_identifier' = threads[t].loaded + 1
    /\ stage_objects' = Append(stage_objects,
                               [name |-> threads[t].name, order |-> threads[t].order])
    /\ threads' = [threads EXCEPT ![t].pc = "done"]
    /\ UNCHANGED <<cls, ptype, instances, exc, runs, ptype2, call>>

(***************************************************************************)
(* Specifications.                                                         *)
(***************************************************************************)
\* No start() is in progress: start() blocks its caller until it returns or raises.
Quiescent == \A i \in 1..Len(instances) : instances[i].pc \notin {"loop", "action"}

\* The constructor calls of a run: the one of __main__, and one with no argument.
MainKwargs == [changelist |-> "50", value |-> "Hello.txt"]

CallsOf(c) == {MainKwargs, <<>>} \cap KwargsFor(ptype[c].init_args)

\* A sequential program: declarations, definition processing, instances, runs.
Next ==
    \/ \E c \in Defs, k \in 1..Len(MethodNames) :
           Quiescent /\ DeclareStage(c, MethodNames[k], StageNameOf(MethodNames[k]))
    \/ \E c \in Defs : Quiescent /\ ProcessDefinition(c)
    \/ \E c \in Defs : \E kwargs \in CallsOf(c) : Quiescent /\ Construct(c, kwargs)
    \/ \E i \in 1..MaxInstances : Quiescent /\ Start(i)
    \/ \E i \in 1..MaxInstances : StageRunBegin(i)
    \/ \E i \in 1..MaxInstances : StageRunEnd(i)
    \/ \E i \in 1..MaxInstances, e \in Failures : StageRaise(i, e)
    \/ \E i \in 1..MaxInstances : StartReturn(i)

Spec == Init /\ [][Next]_vars

\* Definition processing and construction over every bounded class body.
NextAttr ==
    \/ \E k \in 1..MaxFields : SetRequired("P", k)
    \/ ProcessDefinition("P")
    \/ \E kwargs \in KwargsFor(ptype["P"].init_args) : Construct("P", kwargs)

SpecAttr == InitAttr /\ [][NextAttr]_vars

\* One definition processed twice, an instance constructed from each result.
NextTwice ==
    \/ \E k \in 1..MaxFields : SetRequired("P", k)
    \/ ProcessDefinition("P")
    \/ ProcessAgain("P")
    \/ \E r \in Results : ConstructOnce("P", r)

SpecTwice == InitTwice /\ [][NextTwice]_vars

\* One definition whose methods are tagged, tagged by a Stage object used
\* before, or left untagged; its instances, run one after the other.
NextTies ==
    \/ \E k \in 1..Len(MethodNames), n \in StageNames :
           DeclareStage("P", MethodNames[k], n)
    \/ \E k \in 1..Len(MethodNames), j \in 1..MaxStages :
           TagAgain("P", MethodNames[k], j)
    \/ \E k \in 1..Len(MethodNames) : DeclareMethod("P", MethodNames[k])
    \/ ProcessDefinition("P")
    \/ \E kwargs \in CallsOf("P") :
           Quiescent /\ ConstructBounded("P", 1, kwargs, NumConcurrent)
    \/ \E i \in 1..NumConcurrent : Quiescent /\ Start(i)
    \/ \E i \in 1..NumConcurrent : StageRunBegin(i)
    \/ \E i \in 1..NumConcurrent : StageRunEnd(i)
    \/ \E i \in 1..NumConcurrent : StartReturn(i)

SpecTies == InitTies /\ [][NextTies]_vars

\* Constructor calls and steps of start() on several instances, in any order.
NextConcurrent ==
    \/ \E c \in Defs : \E kwargs \in CallsOf(c) :
           ConstructBounded(c, 1, kwargs, NumConcurrent)
    \/ \E i \in 1..NumConcurrent : Start(i)
    \/ \E i \in 1..NumConcurrent : StageRunBegin(i)
    \/ \E i \in 1..NumConcurrent : StageRunEnd(i)
    \/ \E i \in 1..NumConcurrent, e \in Failures : StageRaise(i, e)
    \/ \E i \in 1..NumConcurrent : StartReturn(i)

SpecConcurrent == InitConcurrent /\ [][NextConcurrent]_vars

\* An action is tagged, then called.
NextCall ==
    \/ \E n \in StageNames : TagAction(n)
    \/ \E arguments \in Arguments : CallTagged(arguments)

SpecCall == InitCall /\ [][NextCall]_vars

\* Stage objects constructed by concurrent threads.
NextThreads ==
    \/ \E t \in 1..NumThreads, n \in StageNames : ThreadReadOrder(t, n)
    \/ \E t \in 1..NumThreads : ThreadLoad(t)
    \/ \E t \in 1..NumThreads : ThreadStore(t)

SpecThreads == Init /\ [][NextThreads]_vars

(***************************************************************************)
(* Properties.                                                             *)
(***************************************************************************)
IsPrefix(s, t) == Len(s) <= Len(t) /\ \A k \in 1..Len(s) : s[k] = t[k]

\* The tagged methods of a class body, in the order the body declares them.
Textual(c) ==
    LET tagged == SelectSeq(cls[c].body, LAMBDA m : m.value.kind = "stage")
    IN  [k \in 1..Len(tagged) |-> tagged[k].name]

\* The methods a run has called so far, in the order of the calls.
Calls(i) ==
    LET called == SelectSeq(instances[i].trace, LAMBDA ev : ev.kind = "call")
    IN  [k \in 1..Len(called) |-> called[k].function]

\* The "Running..." and "Executed." lines a run has printed so far.
Events(i) == SelectSeq(instances[i].trace, LAMBDA ev : ev.kind # "call")

\* C1: a run calls the stage actions of its definition in the order the body
\* declares them, S1, S2, ..., Sn, whatever stages other definitions declared
\* before, between or after them: the calls made so far are a prefix of that
\* order, and a run that returned made exactly those calls.
C1_DeclarationOrder ==
    \A i \in 1..Len(instances) :
        /\ IsPrefix(Calls(i), Textual(instances[i].cls))
        /\ instances[i].pc = "returned" => Calls(i) = Textual(instances[i].cls)

\* A returned run of two or more stages whose declaration order is not the
\* alphabetical one and between which another definition declared a stage.
C1_Witness ==
    \E i \in 1..Len(instances) :
        /\ instances[i].pc = "returned"
        /\ Len(instances[i].stages) >= 2
        /\ \E k \in 1..(Len(instances[i].stages) - 1) :
               /\ NameRank(Calls(i)[k]) > NameRank(Calls(i)[k + 1])
               /\ instances[i].stages[k + 1].order > instances[i].stages[k].order + 1

\* The trace of a run over the given stages in which every action returns.
RECURSIVE FullTrace(_)
FullTrace(stages) ==
    IF stages = <<>> THEN <<>>
    ELSE << Event("Running", Head(stages)), Event("call", Head(stages)),
            Event("Executed", Head(stages)) >> \o FullTrace(Tail(stages))

\* C2: start() is strictly sequential: for each stage "Running...", then the
\* call of the action, then "Executed.", stage k+1 starting only after stage k
\* completed; a run of n stages that returns has printed exactly 2n events.
C2_Sequential ==
    \A i \in 1..Len(instances) :
        /\ IsPrefix(instances[i].trace, FullTrace(instances[i].stages))
        /\ instances[i].pc = "returned" =>
               /\ instances[i].trace = FullTrace(instances[i].stages)
               /\ Len(Events(i)) = 2 * Len(instances[i].stages)

\* The run of Sync, Build, Submit has returned with its six events.
C2_Witness ==
    \E i \in 1..Len(instances) :
        /\ instances[i].pc = "returned"
        /\ [k \in 1..Len(instances[i].stages) |-> instances[i].stages[k].name]
               = <<"Sync", "Build", "Submit">>
        /\ [k \in 1..Len(Events(i)) |-> Events(i)[k].kind]
               = <<"Running", "Executed", "Running", "Executed", "Running", "Executed">>

\* C3: when the action of stage k raises, start() is left at once: stage k is
\* the last action called, it was called once, no later stage is called, and
\* the caller of start() receives the exception the action raised.
C3_Abort ==
    \A i \in 1..Len(instances) :
        instances[i].raised # None =>
            /\ instances[i].pc = "raised"
            /\ instances[i].result = instances[i].raised
            /\ Len(Calls(i)) = instances[i].idx
            /\ Calls(i) = [k \in 1..instances[i].idx |-> instances[i].stages[k].function]
            /\ instances[i].trace[Len(instances[i].trace)].kind = "call"

\* The second of three stages raised.
C3_Witness ==
    \E i \in 1..Len(instances) :
        /\ instances[i].pc = "raised"
        /\ instances[i].idx = 2
        /\ Len(instances[i].stages) = 3
        /\ instances[i].result = "OSError"

\* The attributes the schema of a class holds with no default.
WithoutDefault(c) ==
    {cls[c].pipeline_attributes[k].name :
        k \in {j \in 1..Len(cls[c].pipeline_attributes) :
                  cls[c].pipeline_attributes[j].value.default = None}}

\* C4: a constructor call that omits an attribute with no default produces
\* no instance: every instance was given a value for each such attribute.
C4_RequiredEnforced ==
    \A i \in 1..Len(instances) :
        WithoutDefault(instances[i].cls) \subseteq DOMAIN instances[i].kwargs

\* C5: an attribute with a default that the constructor call gave no value
\* for holds its default in the instance; an attribute the call gave a value
\* for holds that value.
C5_DefaultResolution ==
    \A i \in 1..Len(instances) :
        LET schema == cls[instances[i].cls].pipeline_attributes
        IN  /\ DOMAIN instances[i].fields = SeqToSet(DictKeys(schema))
            /\ \A k \in 1..Len(schema) :
                   /\ (schema[k].name \notin DOMAIN instances[i].kwargs
                          /\ schema[k].value.default # None)
                         => instances[i].fields[schema[k].name] = schema[k].value.default
                   /\ schema[k].name \in DOMAIN instances[i].kwargs
                         => instances[i].fields[schema[k].name]
                                = instances[i].kwargs[schema[k].name]

\* An instance with one attribute left to its default and another supplied
\* although it has a default.
C5_Witness ==
    \E i \in 1..Len(instances) :
        LET schema == cls[instances[i].cls].pipeline_attributes
        IN  \E j, k \in 1..Len(schema) :
                /\ schema[j].name \notin DOMAIN instances[i].kwargs
                /\ schema[j].value.default = "Default.txt"
                /\ instances[i].fields[schema[j].name] = "Default.txt"
                /\ schema[k].name \in DOMAIN instances[i].kwargs
                /\ schema[k].value.default = "Default.txt"
                /\ instances[i].fields[schema[k].name] = "Hello.txt"

\* C6: a definition holding an attribute that is required and has a default
\* is rejected: no processed definition keeps such an attribute.
C6_ConflictRejected ==
    \A c \in Defs :
        ptype[c].status = "ok" =>
            \A k \in 1..Len(cls[c].pipeline_attributes) :
                ~(/\ cls[c].pipeline_attributes[k].value.required
                  /\ cls[c].pipeline_attributes[k].value.default # None)

\* Every Stage object created so far got an order above all earlier ones, from
\* a counter that moved once per object.
OrdersIncrease ==
    /\ \A j, k \in 1..Len(stage_objects) :
           j < k => stage_objects[j].order < stage_objects[k].order
    /\ next_identifier = 1 + Len(stage_objects)
    /\ \A c \in Defs : \A k \in 1..Len(cls[c].dict) :
           cls[c].dict[k].value.kind = "stage" =>
               \E j \in 1..Len(stage_objects) :
                   stage_objects[j].order = cls[c].dict[k].value.stage_order

\* No step changes the order of a Stage object, of a tagged method or of a
\* bound stage.
OrdersKept ==
    /\ \A k \in 1..Len(stage_objects) : stage_objects'[k] = stage_objects[k]
    /\ \A c \in Defs : \A k \in 1..Len(cls[c].dict) :
           cls[c].dict[k].value.kind = "stage" =>
               cls'[c].dict[k].value.stage_order = cls[c].dict[k].value.stage_order
    /\ \A i \in 1..Len(instances) : \A k \in 1..Len(instances[i].stages) :
           instances'[i].stages[k].order = instances[i].stages[k].order

\* C7: orders come from one counter that moves once per stage declaration: a
\* stage declared earlier, on whatever definition, has a strictly smaller order
\* than one declared later, and an order once assigned never changes.
C7_MonotonicOrder == [][OrdersIncrease' /\ OrdersKept]_vars

\* Stages were declared on both definitions, the last after an instance ran.
C7_Witness ==
    /\ Len(stage_objects) = MaxStages
    /\ \A c \in Defs : \E k \in 1..Len(cls[c].dict) : cls[c].dict[k].value.kind = "stage"
    /\ \E i \in 1..Len(instances) :
           /\ instances[i].pc = "returned"
           /\ \E k \in 1..Len(instances[i].stages) :
                  instances[i].stages[k].order < stage_objects[MaxStages].order

\* C8: concurrent stage declarations never obtain the same order, and the
\* counter ends at its initial value plus the number of declarations.
C8_ThreadSafe ==
    (\A t \in 1..NumThreads : threads[t].pc = "done") =>
        /\ \A t, u \in 1..NumThreads : t # u => threads[t].order # threads[u].order
        /\ next_identifier = 1 + NumThreads

\* The names the body of a class annotates.
Annotated(c) == SeqToSet(DictKeys(cls[c].annotations))

\* A member of the body as written holds a placeholder and has no annotation.
HasUntypedPlaceholder(c) ==
    \E k \in 1..Len(cls[c].body) :
        /\ cls[c].body[k].value.kind = "attribute"
        /\ cls[c].body[k].name \notin Annotated(c)

\* C9: processing a definition one of whose members holds a placeholder
\* without a type annotation raises the definition error and yields no type.
C9_UntypedRejected ==
    \A c \in Defs :
        (ptype[c].status # "none" /\ HasUntypedPlaceholder(c))
            => ptype[c].status = "SyntaxError"

\* A processed body whose only fault is the missing annotation: its placeholder
\* carries the name of the member that holds it.
C9_Witness ==
    /\ ptype["P"].status = "SyntaxError"
    /\ Len(cls["P"].body) = 2
    /\ \E k \in 1..Len(cls["P"].body) :
           /\ cls["P"].body[k].value.kind = "attribute"
           /\ cls["P"].body[k].name \notin Annotated("P")
           /\ cls["P"].body[k].value.attr.name = cls["P"].body[k].name
    /\ \A k \in 1..Len(cls["P"].body) :
           cls["P"].body[k].name \in Annotated("P")
               => cls["P"].body[k].value.kind = "literal"

\* The attribute each annotated, non-underscore field of the body declares, by
\* the name the schema knows it under, in the order of the fields.
DeclaredAttributes(c) ==
    LET fields == SelectSeq(cls[c].annotations,
                            LAMBDA a : ~StartsWithUnderscore(a.name))
        held(n) == SelectSeq(cls[c].body, LAMBDA m : m.name = n)
    IN  [k \in 1..Len(fields) |->
            IF held(fields[k].name) # <<>>
                  /\ held(fields[k].name)[1].value.kind = "attribute"
            THEN held(fields[k].name)[1].value.attr.name
            ELSE fields[k].name]

\* C10: the attributes of the schema and the parameters of the generated
\* constructor follow the order in which the body declares the attribute fields.
C10_AttributeOrder ==
    \A c \in Defs :
        ptype[c].status = "ok" =>
            /\ DictKeys(cls[c].pipeline_attributes) = DeclaredAttributes(c)
            /\ [k \in 1..Len(ptype[c].init_args) |-> ptype[c].init_args[k].name]
                   = DeclaredAttributes(c)

\* A schema of two attributes, the first declared by a placeholder.
C10_Witness ==
    /\ ptype["P"].status = "ok"
    /\ DictKeys(cls["P"].pipeline_attributes) = <<"value", "changelist">>
    /\ cls["P"].body[1].value.kind = "attribute"

\* The stages bound to an instance, without the instance they are bound to.
BoundOrder(i) ==
    [k \in 1..Len(instances[i].stages) |->
        [name |-> instances[i].stages[k].name, order |-> instances[i].stages[k].order,
         function |-> instances[i].stages[k].function]]

\* C11: two instances constructed with no argument, one from each of two
\* results of processing the same definition, have the same stage order and
\* the same value in every attribute.
C11_SchemaReuse ==
    \A i, j \in 1..Len(instances) :
        (/\ instances[i].cls = instances[j].cls
         /\ instances[i].made_by = 1 /\ instances[j].made_by = 2
         /\ instances[i].kwargs = <<>> /\ instances[j].kwargs = <<>>)
            => /\ BoundOrder(i) = BoundOrder(j)
               /\ DOMAIN instances[i].fields = DOMAIN instances[j].fields
               /\ \A n \in DOMAIN instances[i].fields :
                      instances[i].fields[n] = instances[j].fields[n]

\* Both instances exist; the body declared one attribute by a placeholder
\* with a default and one by a plain default.
C11_Witness ==
    /\ Len(cls["P"].body) >= 2
    /\ cls["P"].body[1].value.kind = "attribute"
    /\ cls["P"].body[2].value.kind = "literal"
    /\ \E i, j \in 1..Len(instances) :
           /\ instances[i].made_by = 1 /\ instances[j].made_by = 2
           /\ Len(instances[i].stages) = 2
           /\ DOMAIN instances[j].fields = {"changelist", "value"}
           /\ instances[j].fields["changelist"] = "Default.txt"
           /\ instances[j].fields["value"] = "Default.txt"

\* C12: calling a tagged action passes the caller's arguments to the original
\* action, once, and gives the caller what the original returns or raises for
\* those arguments; the tag itself holds the stage's name and order, nothing else.
C12_Transparent ==
    /\ call.called =>
           /\ call.received = <<call.args>>
           /\ call.outcome = call.function[call.args]
    /\ call.tag.kind = "stage" =>
           call.tag = [Absent EXCEPT !.kind = "stage",
                                     !.stage_name = stage_objects[1].name,
                                     !.stage_order = stage_objects[1].order]

\* A tagged action called with a positional and a keyword argument returned a
\* value other than None, having another outcome for other arguments.
C12_Witness ==
    /\ call.called
    /\ call.args.kwargs # <<>>
    /\ call.outcome = Returned("done")
    /\ call.function[NoArguments].kind = "raise"

\* A step leaves the attribute values and the stage list of every instance as
\* they were, and moves at most one instance.
OthersUntouched ==
    /\ \A i \in 1..Len(instances) :
           /\ instances'[i].fields = instances[i].fields
           /\ instances'[i].stages = instances[i].stages
    /\ \A i, j \in 1..Len(instances) :
           i # j => instances'[i] = instances[i] \/ instances'[j] = instances[j]
    /\ Len(instances') > Len(instances) =>
           \A i \in 1..Len(instances) : instances'[i] = instances[i]

\* Every instance runs its own stages, in its own order, each action receiving
\* the instance it was bound to.
OwnRun ==
    \A i \in 1..Len(instances) :
        /\ \A k \in 1..Len(instances[i].stages) : instances[i].stages[k].pipeline = i
        /\ \A k \in 1..Len(instances[i].trace) : instances[i].trace[k].self = i
        /\ Calls(i) = [k \in 1..Len(Calls(i)) |-> Textual(instances[i].cls)[k]]
        /\ \A n \in DOMAIN instances[i].fields :
               instances[i].fields[n] =
                   IF n \in DOMAIN instances[i].kwargs THEN instances[i].kwargs[n]
                   ELSE GetAttr(cls[instances[i].cls].pipeline_attributes, n).default

\* C13: under any interleaving of the construction and the start() runs of
\* several instances, no operation on one instance changes the attribute values,
\* the stage list or the progress of another, and each run calls its own
\* instance's stages in that instance's order with that instance as receiver.
C13_Independent == [][OthersUntouched /\ OwnRun']_vars

\* Two instances of one definition with different attribute values are inside
\* an action at the same time, the first in its second stage.
C13_Witness ==
    /\ Len(instances) = 2
    /\ instances[1].cls = instances[2].cls
    /\ instances[1].fields # instances[2].fields
    /\ instances[1].pc = "action" /\ instances[1].idx = 2
    /\ instances[2].pc = "action" /\ instances[2].idx = 1

\* The members of a class that carry stage metadata.
Tagged(c) == {k \in 1..Len(cls[c].dict) : cls[c].dict[k].value.kind = "stage"}

\* C14: the stage list of an instance holds one bound stage for each tagged
\* method of its definition, with that method's name and order, and nothing
\* else; orders never decrease along the list; and no constructor call has
\* raised, tagged methods sharing an order or not.
C14_StageList ==
    /\ \A i \in 1..Len(instances) :
           LET stages == instances[i].stages
               dict == cls[instances[i].cls].dict
           IN  /\ Len(stages) = Cardinality(Tagged(instances[i].cls))
               /\ \A m \in Tagged(instances[i].cls) :
                      \E k \in 1..Len(stages) :
                          /\ stages[k].function = dict[m].name
                          /\ stages[k].name = dict[m].value.stage_name
                          /\ stages[k].order = dict[m].value.stage_order
               /\ \A j, k \in 1..Len(stages) : j < k => stages[j].order <= stages[k].order
    /\ exc = None

\* An instance of a definition with an untagged method and two tagged methods
\* of one order, the later in the alphabet declared first.
C14_Witness ==
    \E i \in 1..Len(instances) :
        /\ Len(instances[i].stages) = 2
        /\ instances[i].stages[1].order = instances[i].stages[2].order
        /\ Len(cls[instances[i].cls].dict) = 3
        /\ cls[instances[i].cls].dict[1].name = "sync"
        /\ cls[instances[i].cls].dict[1].value.kind = "stage"

\* The bound stages of all instances.
BoundStages ==
    UNION {SeqToSet(instances[i].stages) : i \in 1..Len(instances)}

\* C15: two bound stages are equal exactly when their orders are, whatever
\* their names, methods and instances; two stages of an instance with one name
\* and different orders are unequal, the one of lower order comes first in the
\* list, and a run that returned called both, that one first.
C15_Equality ==
    /\ \A a, b \in BoundStages : StageEq(a, b) <=> a.order = b.order
    /\ \A i \in 1..Len(instances) :
           \A j, k \in 1..Len(instances[i].stages) :
               LET a == instances[i].stages[j]
                   b == instances[i].stages[k]
               IN  (a.name = b.name /\ a.order < b.order) =>
                       /\ ~StageEq(a, b)
                       /\ j < k
                       /\ instances[i].pc = "returned" =>
                              /\ Calls(i)[j] = a.function
                              /\ Calls(i)[k] = b.function

\* Two instances; the first returned from a run of two stages of one name and
\* different orders, the lower order on the method later in the alphabet.
C15_Witness ==
    /\ Len(instances) = 2
    /\ instances[1].pc = "returned"
    /\ Len(instances[1].stages) = 2
    /\ instances[1].stages[1].name = instances[1].stages[2].name
    /\ instances[1].stages[1].order < instances[1].stages[2].order
    /\ NameRank(instances[1].stages[1].function) > NameRank(instances[1].stages[2].function)
    /\ StageEq(instances[1].stages[1], instances[2].stages[1])

\* The lines a run over the given stages prints when every action returns.
PrintedBy(stages) == SelectSeq(FullTrace(stages), LAMBDA ev : ev.kind # "call")

\* C16: a run left by the failure of its k-th stage has printed the starting
\* and the completion line of each of the stages 1..k-1, in order, then the
\* starting line of stage k, and nothing more.
C16_FailureEvents ==
    \A i \in 1..Len(instances) :
        instances[i].pc = "raised" =>
            LET k == instances[i].idx
            IN  Events(i) = PrintedBy(SubSeq(instances[i].stages, 1, k - 1))
                              \o <<Event("Running", instances[i].stages[k])>>

\* The third of three stages failed, in the second run of the instance.
C16_Witness ==
    \E i \in 1..Len(instances) :
        /\ instances[i].pc = "raised"
        /\ instances[i].idx = 3
        /\ Len(instances[i].stages) = 3
        /\ Len(Events(i)) = 5
        /\ runs = 2

\* A step of an instance that has run before: whatever it does, the stage list
\* and the attribute values stay; start() can be called again after a run that
\* returned or was aborted, and it begins at the first stage with nothing done.
Restartable ==
    \A i \in 1..Len(instances) :
        /\ instances'[i].stages = instances[i].stages
        /\ instances'[i].fields = instances[i].fields
        /\ (instances[i].pc \in {"returned", "raised"} /\ runs < MaxRuns)
               => ENABLED Start(i)
        /\ (instances[i].pc \in {"returned", "raised"} /\ instances'[i].pc = "loop")
               => /\ instances'[i].idx = 1
                  /\ instances'[i].trace = <<>>
        /\ (instances[i].pc = "loop" /\ instances'[i].pc = "returned")
               => instances'[i].trace = FullTrace(instances[i].stages)

\* C17: start() changes neither the stage list nor the attribute values of
\* its instance and keeps no record of a finished run: after a run that
\* returned or was aborted start() can be called again, and that run calls
\* every stage again, from the first, in the same order.
C17_Restart == [][Restartable]_vars

\* The second run of an instance of three stages returned.
C17_Witness ==
    /\ runs = 2
    /\ Len(instances) = 1
    /\ instances[1].pc = "returned"
    /\ Len(instances[1].stages) = 3
    /\ instances[1].trace = FullTrace(instances[1].stages)
    /\ instances[1].fields = MainKwargs

\* The members of the body as written that hold a placeholder.
PlaceholderFields(c) ==
    {k \in 1..Len(cls[c].body) : cls[c].body[k].value.kind = "attribute"}

\* Every placeholder of the body is the value of an annotated field whose name
\* does not start with an underscore, and none was made required.
OnlyTypedPlaceholders(c) ==
    \A k \in PlaceholderFields(c) :
        /\ cls[c].body[k].name \in Annotated(c)
        /\ ~StartsWithUnderscore(cls[c].body[k].name)
        /\ ~cls[c].body[k].value.attr.required

\* C18: a definition whose placeholders all sit in annotated, non-underscore
\* fields is accepted, and each such field is an attribute of the schema and
\* a parameter of the constructor under the field's own name, with what its
\* placeholder declares, whatever name the placeholder records.
C18_FieldName ==
    \A c \in Defs :
        (ptype[c].status # "none" /\ OnlyTypedPlaceholders(c)) =>
            /\ ptype[c].status = "ok"
            /\ \A k \in PlaceholderFields(c) :
                   LET field == cls[c].body[k]
                   IN  /\ DictHas(cls[c].pipeline_attributes, field.name)
                       /\ GetAttr(cls[c].pipeline_attributes, field.name).default
                              = field.value.attr.default
                       /\ \E j \in 1..Len(ptype[c].init_args) :
                              /\ ptype[c].init_args[j].name = field.name
                              /\ ptype[c].init_args[j].default = field.value.attr.default

====
